---- MODULE Spec2Model ----
(***************************************************************************)
(* Model of src/main.py: TextbookSimilarityAnalyzer.                       *)
(*                                                                         *)
(* A text, a word and a path are sequences of one-character strings, so    *)
(* that upper-casing, tokenizing and os.path.basename are computed and not *)
(* assumed.  A Python dict is an insertion-ordered sequence of <<key,      *)
(* value>> pairs.  A float quotient n / d of two small integers is the     *)
(* pair <<n, d>>; the literal 0 of an "else 0" branch is <<0, 1>>.         *)
(***************************************************************************)
EXTENDS Integers, Sequences, FiniteSets

VARIABLES
    files,          \* run_analysis(textbook_files): the input list of paths
    fs,             \* the file system: path -> what open()/read() gives
    pc,             \* position of run_analysis
    idx,            \* analyze_all_textbooks: index of the source in the for loop
    step,           \* position inside one iteration of that loop
    cur,            \* analyze_all_textbooks: local `analysis`
    analyses,       \* the dict `analyses` (ordered: <<filepath, analysis>>)
    similarities,   \* find_similar_pairs: the list `similarities`
    pi,             \* combinations(analyses.items(), 2): first index
    pj,             \* combinations(analyses.items(), 2): second index
    out,            \* what was printed so far
    phases,         \* the phases of the run entered so far, in order
    call,           \* a direct call of one method: its arguments
    ret             \* ... and what it returned

vars == <<files, fs, pc, idx, step, cur, analyses, similarities, pi, pj, out,
          phases, call, ret>>

runvars == <<files, fs, pc, idx, step, cur, analyses, similarities, pi, pj,
             out, phases>>

(***************************************************************************)
(* Bounds of the model.                                                    *)
(***************************************************************************)
MaxFiles == 3
MaxLen == 6
MaxN == 2
MaxTextLen == 3
MaxTop == 2

(***************************************************************************)
(* Characters.                                                             *)
(***************************************************************************)
LowerChars ==
    <<"a","b","c","d","e","f","g","h","i","j","k","l","m",
      "n","o","p","q","r","s","t","u","v","w","x","y","z">>

UpperChars ==
    <<"A","B","C","D","E","F","G","H","I","J","K","L","M",
      "N","O","P","Q","R","S","T","U","V","W","X","Y","Z">>

DigitChars == <<"0","1","2","3","4","5","6","7","8","9">>

Range(s) == { s[i] : i \in DOMAIN s }

\* \s of the regular expression, and what str.split() splits on
IsSpace(c) == c \in {" ", "\t", "\n", "\r", "\f"}

\* [a-zA-Z0-9]
IsAlnum(c) == c \in Range(LowerChars) \cup Range(UpperChars) \cup Range(DigitChars)

\* str.upper() on one character
UpperChar(c) ==
    IF c \in Range(LowerChars)
    THEN UpperChars[CHOOSE i \in DOMAIN LowerChars : LowerChars[i] = c]
    ELSE c

\* str.upper()
Upper(s) == [i \in 1..Len(s) |-> UpperChar(s[i])]

\* re.sub(r'[^a-zA-Z0-9\s]', ' ', text)
SubNonAlnum(text) ==
    [i \in 1..Len(text) |->
        IF IsAlnum(text[i]) \/ IsSpace(text[i]) THEN text[i] ELSE " "]

\* str.split(): the maximal runs of non-whitespace characters, in order
RECURSIVE SplitFrom(_, _, _, _)
SplitFrom(s, i, word, acc) ==
    IF i > Len(s)
    THEN IF word = <<>> THEN acc ELSE Append(acc, word)
    ELSE IF IsSpace(s[i])
         THEN SplitFrom(s, i + 1, <<>>,
                        IF word = <<>> THEN acc ELSE Append(acc, word))
         ELSE SplitFrom(s, i + 1, Append(word, s[i]), acc)

Split(s) == SplitFrom(s, 1, <<>>, <<>>)

\* clean_text(text)
clean_text(text) ==
    LET cleaned == Upper(SubNonAlnum(text))
    IN  SelectSeq(Split(cleaned), LAMBDA word : word # <<>>)

(***************************************************************************)
(* The stop words and the frequency counter.                               *)
(***************************************************************************)
stop_words ==
    { <<"A">>, <<"A","N","D">>, <<"A","N">>, <<"O","F">>, <<"I","N">>,
      <<"T","H","E">> }

DefaultTopN == 15

\* Counter(words): word -> count, in order of first occurrence
RECURSIVE CounterFrom(_, _, _)
CounterFrom(ws, i, acc) ==
    IF i > Len(ws) THEN acc
    ELSE LET w == ws[i]
             at == { k \in DOMAIN acc : acc[k][1] = w }
         IN  IF at = {}
             THEN CounterFrom(ws, i + 1, Append(acc, <<w, 1>>))
             ELSE LET k == CHOOSE k \in at : TRUE
                  IN  CounterFrom(ws, i + 1,
                                  [acc EXCEPT ![k] = <<w, acc[k][2] + 1>>])

Counter(ws) == CounterFrom(ws, 1, <<>>)

\* sorted(range(len(keys)), key=keys.__getitem__, reverse=True): the indices
\* of keys by non-increasing key; the sort is stable, reverse=True included
RECURSIVE SortedIndicesFrom(_, _, _)
SortedIndicesFrom(keys, i, perm) ==
    IF i > Len(keys) THEN perm
    ELSE LET before == { p \in DOMAIN perm : keys[perm[p]] >= keys[i] }
             n == Cardinality(before)
         IN  SortedIndicesFrom(keys, i + 1,
                 SubSeq(perm, 1, n) \o <<i>> \o SubSeq(perm, n + 1, Len(perm)))

SortedIndicesDesc(keys) == SortedIndicesFrom(keys, 1, <<>>)

Take(s, n) == SubSeq(s, 1, IF n < Len(s) THEN n ELSE Len(s))

\* most_common with a fault: ties broken by last occurrence
most_common_LastFirst(word_count, n) ==
    LET m == Len(word_count)
        rev == [i \in 1..m |-> word_count[m + 1 - i]]
        perm == SortedIndicesDesc([i \in 1..m |-> rev[i][2]])
    IN  Take([i \in 1..m |-> rev[perm[i]]], n)

\* Counter.most_common(n) for an integer n: heapq.nlargest(n, items, key=count),
\* which is sorted(items, key=count, reverse=True)[:n]
most_common(word_count, n) ==
    LET perm == SortedIndicesDesc([i \in 1..Len(word_count) |-> word_count[i][2]])
    IN  Take([i \in 1..Len(word_count) |-> word_count[perm[i]]], n)

\* get_top_frequent_words(words, top_n): <<top_words, len(filtered_words)>>
get_top_frequent_words(words, top_n) ==
    LET filtered_words == SelectSeq(words, LAMBDA word : word \notin stop_words)
        word_count == Counter(filtered_words)
        top_words == most_common(word_count, top_n)
    IN  <<top_words, Len(filtered_words)>>

(***************************************************************************)
(* The document analyzer.                                                  *)
(***************************************************************************)
\* Python's None
None == [none |-> TRUE]

\* bool(x) for x a dict with keys, or None
Truthy(x) == x # None

\* count / total_words if total_words > 0 else 0
Quotient(count, total) == IF total > 0 THEN <<count, total>> ELSE <<0, 1>>

\* analysis_record with a fault: the frequencies are taken over all the words,
\* the stop words included
analysis_record_AllWords(filepath, words) ==
    LET res == get_top_frequent_words(words, DefaultTopN)
        top_words == res[1]
        total_words == res[2]
    IN  [ filepath |-> filepath,
          top_words |-> top_words,
          normalized_frequencies |->
              [i \in 1..Len(top_words) |->
                  <<top_words[i][1], Quotient(top_words[i][2], Len(words))>>],
          total_words |-> total_words,
          top_15_words |-> [i \in 1..Len(top_words) |-> top_words[i][1]] ]

\* analyze_textbook, from the words of the text on: the record it returns
analysis_record(filepath, words) ==
    LET res == get_top_frequent_words(words, DefaultTopN)
        top_words == res[1]
        total_words == res[2]
    IN  [ filepath |-> filepath,
          top_words |-> top_words,
          normalized_frequencies |->
              [i \in 1..Len(top_words) |->
                  <<top_words[i][1], Quotient(top_words[i][2], total_words)>>],
          total_words |-> total_words,
          top_15_words |-> [i \in 1..Len(top_words) |-> top_words[i][1]] ]

\* what open(filepath).read() gives
Missing == [kind |-> "missing", text |-> <<>>]
ReadError == [kind |-> "error", text |-> <<>>]
Readable(text) == [kind |-> "ok", text |-> text]

\* analyze_textbook(filepath): the record, or None when the file is not read
analyze_textbook(filepath) ==
    IF fs[filepath].kind = "ok"
    THEN analysis_record(filepath, clean_text(fs[filepath].text))
    ELSE None

\* one printed line (or block of lines), and the files it names
Ev(what, f1, f2) == [ev |-> what, file1 |-> f1, file2 |-> f2]

\* what analyze_textbook(filepath) prints
analyze_textbook_prints(filepath) ==
    IF fs[filepath].kind = "ok" THEN <<>>
    ELSE IF fs[filepath].kind = "missing"
         THEN << Ev("not_found", filepath, <<>>) >>
         ELSE << Ev("error_processing", filepath, <<>>) >>

(***************************************************************************)
(* The similarity calculator.                                              *)
(***************************************************************************)
\* calculate_similarity with a fault: the ratio is taken over the first set
calculate_similarity_OverFirst(analysis1, analysis2) ==
    IF ~Truthy(analysis1) \/ ~Truthy(analysis2) THEN 0
    ELSE LET words1 == Range(analysis1.top_15_words)
             words2 == Range(analysis2.top_15_words)
             common_words == words1 \cap words2
             common_count == Cardinality(common_words)
         IN  [ common_words |-> common_words,
               common_count |-> common_count,
               jaccard_similarity |->
                   IF words1 # {}
                   THEN <<common_count, Cardinality(words1)>>
                   ELSE <<0, 1>> ]

\* calculate_similarity with a fault: the ratio is taken over both lists, the
\* common words counted twice
calculate_similarity_SumOfSizes(analysis1, analysis2) ==
    IF ~Truthy(analysis1) \/ ~Truthy(analysis2) THEN 0
    ELSE LET words1 == Range(analysis1.top_15_words)
             words2 == Range(analysis2.top_15_words)
             common_words == words1 \cap words2
             common_count == Cardinality(common_words)
         IN  [ common_words |-> common_words,
               common_count |-> common_count,
               jaccard_similarity |->
                   IF words1 \cup words2 # {}
                   THEN <<common_count, Cardinality(words1) + Cardinality(words2)>>
                   ELSE <<0, 1>> ]

\* calculate_similarity(analysis1, analysis2)
calculate_similarity(analysis1, analysis2) ==
    IF ~Truthy(analysis1) \/ ~Truthy(analysis2) THEN 0
    ELSE LET words1 == Range(analysis1.top_15_words)
             words2 == Range(analysis2.top_15_words)
             common_words == words1 \cap words2
             common_count == Cardinality(common_words)
         IN  [ common_words |-> common_words,
               common_count |-> common_count,
               jaccard_similarity |->
                   IF words1 \cup words2 # {}
                   THEN <<common_count, Cardinality(words1 \cup words2)>>
                   ELSE <<0, 1>> ]

(***************************************************************************)
(* The corpus runner.                                                      *)
(***************************************************************************)
\* os.path.basename(path): what follows the last "/"
basename(path) ==
    LET slashes == { i \in DOMAIN path : path[i] = "/" }
        last == IF slashes = {} THEN 0
                ELSE CHOOSE i \in slashes : \A k \in slashes : k <= i
    IN  SubSeq(path, last + 1, Len(path))

Keys(d) == [i \in 1..Len(d) |-> d[i][1]]

\* DictSet with a fault: every assignment adds an entry
DictSet_Append(d, k, v) == Append(d, <<k, v>>)

\* d[k] = v on a dict: a key already there keeps its place
DictSet(d, k, v) ==
    IF \E i \in DOMAIN d : d[i][1] = k
    THEN LET i == CHOOSE i \in DOMAIN d : d[i][1] = k
         IN  [d EXCEPT ![i] = <<k, v>>]
    ELSE Append(d, <<k, v>>)

\* sort_similarities with a fault: among equal counts the later pair comes first
sort_similarities_Unstable(sims) ==
    LET n == Len(sims)
        rev == [i \in 1..n |-> sims[n + 1 - i]]
        perm == SortedIndicesDesc([i \in 1..n |-> rev[i].similarity.common_count])
    IN  [i \in 1..n |-> rev[perm[i]]]

\* similarities.sort(key=lambda x: x['similarity']['common_count'], reverse=True)
sort_similarities(sims) ==
    LET perm == SortedIndicesDesc(
                    [i \in 1..Len(sims) |-> sims[i].similarity.common_count])
    IN  [i \in 1..Len(sims) |-> sims[perm[i]]]

\* EnoughDocuments with a fault: one document is enough
EnoughDocuments_One == ~(Len(analyses) < 1)

\* run_analysis: not (len(analyses) < 2)
EnoughDocuments == ~(Len(analyses) < 2)

\* display_similarity_results(similarities): what it prints
display_similarity_results(sims) ==
    << Ev("results_header", <<>>, <<>>) >>
    \o [i \in 1..Len(sims) |-> Ev("pair", sims[i].file1, sims[i].file2)]
    \o (IF sims # <<>>
        THEN << Ev("most_similar", sims[1].file1, sims[1].file2) >>
        ELSE <<>>)

\* run_analysis calls analyze_all_textbooks, which starts with an empty dict
Start ==
    /\ pc = "START"
    /\ pc' = "COLLECTING"
    /\ phases' = Append(phases, "COLLECTING")
    /\ analyses' = <<>>
    /\ idx' = 1
    /\ step' = "next"
    /\ out' = Append(out, Ev("analyzing", <<>>, <<>>))
    /\ UNCHANGED <<files, fs, cur, similarities, pi, pj, call, ret>>

\* analyze_all_textbooks: `for filepath in filepaths` has a next filepath
MoreSources == pc = "COLLECTING" /\ step = "next" /\ idx <= Len(files)

\* analyze_all_textbooks, one iteration: analysis = self.analyze_textbook(filepath)
AnalyzeOne ==
    /\ MoreSources
    /\ cur' = analyze_textbook(files[idx])
    /\ out' = out \o analyze_textbook_prints(files[idx])
    /\ step' = "analyzed"
    /\ UNCHANGED <<files, fs, pc, idx, analyses, similarities, pi, pj, phases,
                   call, ret>>

\* analyze_all_textbooks, the rest of the iteration: if analysis: store and print
Collect ==
    /\ pc = "COLLECTING"
    /\ step = "analyzed"
    /\ IF Truthy(cur)
       THEN /\ analyses' = DictSet(analyses, files[idx], cur)
            /\ out' = Append(out, Ev("textbook", basename(files[idx]), <<>>))
       ELSE UNCHANGED <<analyses, out>>
    /\ idx' = idx + 1
    /\ step' = "next"
    /\ UNCHANGED <<files, fs, pc, cur, similarities, pi, pj, phases, call, ret>>

\* analyze_all_textbooks returns; run_analysis tests len(analyses) < 2
EndCollecting ==
    /\ pc = "COLLECTING"
    /\ step = "next"
    /\ idx > Len(files)
    /\ IF EnoughDocuments
       THEN /\ pc' = "PAIRING"
            /\ phases' = Append(phases, "PAIRING")
            /\ similarities' = <<>>
            /\ pi' = 1
            /\ pj' = 2
            /\ out' = out
       ELSE /\ pc' = "DONE"
            /\ out' = Append(out, Ev("need_at_least_2", <<>>, <<>>))
            /\ UNCHANGED <<phases, similarities, pi, pj>>
    /\ UNCHANGED <<files, fs, idx, step, cur, analyses, call, ret>>

\* find_similar_pairs, one iteration over combinations(analyses.items(), 2)
PairStep ==
    /\ pc = "PAIRING"
    /\ pi < Len(analyses)
    /\ similarities' =
           Append(similarities,
                  [ file1 |-> basename(analyses[pi][1]),
                    file2 |-> basename(analyses[pj][1]),
                    similarity |->
                        calculate_similarity(analyses[pi][2], analyses[pj][2]) ])
    /\ IF pj < Len(analyses)
       THEN pi' = pi /\ pj' = pj + 1
       ELSE pi' = pi + 1 /\ pj' = pi + 2
    /\ UNCHANGED <<files, fs, pc, idx, step, cur, analyses, out, phases, call,
                   ret>>

\* find_similar_pairs: the combinations are exhausted
EndPairing ==
    /\ pc = "PAIRING"
    /\ pi >= Len(analyses)
    /\ pc' = "RANKING"
    /\ phases' = Append(phases, "RANKING")
    /\ UNCHANGED <<files, fs, idx, step, cur, analyses, similarities, pi, pj,
                   out, call, ret>>

\* find_similar_pairs: the sort, and the return to run_analysis
Rank ==
    /\ pc = "RANKING"
    /\ similarities' = sort_similarities(similarities)
    /\ pc' = "REPORTING"
    /\ phases' = Append(phases, "REPORTING")
    /\ UNCHANGED <<files, fs, idx, step, cur, analyses, pi, pj, out, call, ret>>

\* run_analysis: self.display_similarity_results(similarities)
Report ==
    /\ pc = "REPORTING"
    /\ out' = out \o display_similarity_results(similarities)
    /\ pc' = "DONE"
    /\ UNCHANGED <<files, fs, idx, step, cur, analyses, similarities, pi, pj,
                   phases, call, ret>>

(***************************************************************************)
(* The inputs of a run.                                                    *)
(***************************************************************************)
SeqsUpTo(S, n) == UNION { [1..k -> S] : k \in 0..n }

Paths == { <<"x">>, <<"b","/","x">>, <<"y">> }

RunTexts ==
    { <<"a"," ","b">>,          \* a b
      <<"B","!","n">>,          \* B!n
      <<"n">>,                  \* n
      <<"n"," ","b">>,          \* n b
      <<"A","n"," ","a">> }     \* An a

FileStates == {Missing, ReadError} \cup { Readable(t) : t \in RunTexts }

NoCall == [fn |-> "run_analysis"]
NotReturned == [returned |-> FALSE]
Returned(v) == [returned |-> TRUE, value |-> v]

\* run_analysis(files) is called; a path the list does not name is not read
Init ==
    /\ files \in SeqsUpTo(Paths, MaxFiles)
    /\ fs \in [Paths -> FileStates]
    /\ \A p \in Paths : p \notin Range(files) => fs[p] = Missing
    /\ pc = "START"
    /\ idx = 1
    /\ step = "next"
    /\ cur = None
    /\ analyses = <<>>
    /\ similarities = <<>>
    /\ pi = 1
    /\ pj = 2
    /\ out = <<>>
    /\ phases = <<>>
    /\ call = NoCall
    /\ ret = NotReturned

Next ==
    \/ Start
    \/ AnalyzeOne
    \/ Collect
    \/ EndCollecting
    \/ PairStep
    \/ EndPairing
    \/ Rank
    \/ Report

Spec == Init /\ [][Next]_vars

(***************************************************************************)
(* Direct calls of one method, on inputs drawn from bounded sets.          *)
(***************************************************************************)
THE == <<"T","H","E">>
the == <<"t","h","e">>
CAT == <<"C","A","T">>
SAT == <<"S","A","T">>
ON == <<"O","N">>

Vocab == {THE, the, CAT, SAT, ON}

SimVocab == {THE, CAT, SAT, ON}

TextChars == {"a", "n", "B", " ", "!"}

\* "b c d ... p": 15 distinct words; and "b b c ... q": 16 distinct words
Words15 == [i \in 1..15 |-> <<LowerChars[i + 1]>>]
Words16 == <<<<"b">>>> \o [i \in 1..16 |-> <<LowerChars[i + 1]>>]

RECURSIVE Join(_)
Join(ws) ==
    IF ws = <<>> THEN <<>>
    ELSE IF Len(ws) = 1 THEN ws[1]
         ELSE ws[1] \o <<" ">> \o Join(Tail(ws))

LongTexts == { Join(Words15), Join(Words16) }

\* the run is not started
IdleRun ==
    /\ files = <<>>
    /\ pc = "IDLE"
    /\ idx = 1
    /\ step = "next"
    /\ cur = None
    /\ analyses = <<>>
    /\ similarities = <<>>
    /\ pi = 1
    /\ pj = 2
    /\ out = <<>>
    /\ phases = <<>>

\* get_top_frequent_words(words, top_n) is called
CounterInit ==
    /\ IdleRun
    /\ fs = [p \in Paths |-> Missing]
    /\ \E w \in SeqsUpTo(Vocab, MaxLen), n \in 1..MaxN :
           call = [fn |-> "get_top_frequent_words", words |-> w, top_n |-> n]
    /\ ret = NotReturned

CounterCall ==
    /\ call.fn = "get_top_frequent_words"
    /\ ret = NotReturned
    /\ ret' = Returned(get_top_frequent_words(call.words, call.top_n))
    /\ UNCHANGED <<runvars, call>>

CounterSpec == CounterInit /\ [][CounterCall]_vars

\* calculate_similarity(analysis1, analysis2) is called, on records that
\* analyze_textbook builds, or on None
SimInputs ==
    {None} \cup { analysis_record(<<"x">>, w) : w \in SeqsUpTo(SimVocab, MaxTop) }

SimInit ==
    /\ IdleRun
    /\ fs = [p \in Paths |-> Missing]
    /\ \E a1 \in SimInputs, a2 \in SimInputs :
           call = [fn |-> "calculate_similarity", analysis1 |-> a1,
                   analysis2 |-> a2]
    /\ ret = NotReturned

SimCall ==
    /\ call.fn = "calculate_similarity"
    /\ ret = NotReturned
    /\ ret' = Returned(calculate_similarity(call.analysis1, call.analysis2))
    /\ UNCHANGED <<runvars, call>>

SimSpec == SimInit /\ [][SimCall]_vars

\* analyze_textbook(filepath) is called
AnalyzeInit ==
    /\ IdleRun
    /\ \E st \in {Missing, ReadError}
               \cup { Readable(t) : t \in SeqsUpTo(TextChars, MaxTextLen) }
               \cup { Readable(t) : t \in LongTexts } :
           fs = [p \in Paths |-> IF p = <<"x">> THEN st ELSE Missing]
    /\ call = [fn |-> "analyze_textbook", filepath |-> <<"x">>]
    /\ ret = NotReturned

AnalyzeCall ==
    /\ call.fn = "analyze_textbook"
    /\ ret = NotReturned
    /\ ret' = Returned(analyze_textbook(call.filepath))
    /\ out' = out \o analyze_textbook_prints(call.filepath)
    /\ UNCHANGED <<files, fs, pc, idx, step, cur, analyses, similarities, pi,
                   pj, phases, call>>

AnalyzeSpec == AnalyzeInit /\ [][AnalyzeCall]_vars

(***************************************************************************)
(* Helpers of the properties.                                              *)
(***************************************************************************)
Min(a, b) == IF a < b THEN a ELSE b

RECURSIVE SumSeq(_)
SumSeq(s) == IF s = <<>> THEN 0 ELSE s[1] + SumSeq(Tail(s))

IsOne(q) == q[2] > 0 /\ q[1] = q[2]
IsZero(q) == q[2] > 0 /\ q[1] = 0

\* the positions of the words that are no stop words
NonStop(ws) == { i \in DOMAIN ws : ws[i] \notin stop_words }
Occurrences(ws, w) == Cardinality({ i \in NonStop(ws) : ws[i] = w })
DistinctWords(ws) == { ws[i] : i \in NonStop(ws) }
FirstAt(ws, w) ==
    CHOOSE i \in DOMAIN ws : ws[i] = w /\ \A k \in DOMAIN ws : ws[k] = w => i <= k

CounterReturned == call.fn = "get_top_frequent_words" /\ ret.returned

(***************************************************************************)
(* C6: get_top_frequent_words returns, for every token sequence and every  *)
(* N >= 1, the words that are no stop words with their numbers of          *)
(* occurrences, by non-increasing count, equal counts by first occurrence, *)
(* min(N, number of distinct words) of them, no word left out more         *)
(* frequent than one kept, and the number of tokens that are no stop       *)
(* words; [THE, CAT, SAT, ON, THE, CAT] with N = 2 gives                   *)
(* [(CAT, 2), (SAT, 1)].                                                   *)
(***************************************************************************)
\* C6: what get_top_frequent_words returns
C6_TopFrequentWords ==
    CounterReturned =>
        LET ws == call.words
            top == ret.value[1]
            kept == { top[k][1] : k \in DOMAIN top }
        IN  /\ \A k \in DOMAIN top :
                   /\ top[k][1] \in DistinctWords(ws)
                   /\ top[k][2] = Occurrences(ws, top[k][1])
            /\ \A k, l \in DOMAIN top :
                   k < l =>
                       /\ top[k][1] # top[l][1]
                       /\ top[k][2] >= top[l][2]
                       /\ top[k][2] = top[l][2] =>
                              FirstAt(ws, top[k][1]) < FirstAt(ws, top[l][1])
            /\ Len(top) = Min(call.top_n, Cardinality(DistinctWords(ws)))
            /\ Len(top) <= call.top_n
            /\ \A w \in DistinctWords(ws) \ kept :
                   \A k \in DOMAIN top : Occurrences(ws, w) <= top[k][2]
            /\ ret.value[2] = Cardinality(NonStop(ws))
            /\ (ws = <<THE, CAT, SAT, ON, THE, CAT>> /\ call.top_n = 2) =>
                   top = << <<CAT, 2>>, <<SAT, 1>> >>

\* the example of the claim was computed
C6_Witness ==
    /\ CounterReturned
    /\ call.words = <<THE, CAT, SAT, ON, THE, CAT>>
    /\ call.top_n = 2
    /\ ret.value = << << <<CAT, 2>>, <<SAT, 1>> >>, 4 >>

(***************************************************************************)
(* C7: the output of get_top_frequent_words holds no stop word in any      *)
(* letter case: neither among the top words nor in the count of the        *)
(* filtered tokens.                                                        *)
(***************************************************************************)
\* C7 as stated: no stop word in any letter case is in the output
C7_NoStopWordInAnyCase ==
    CounterReturned =>
        /\ \A k \in DOMAIN ret.value[1] : Upper(ret.value[1][k][1]) \notin stop_words
        /\ ret.value[2] =
               Cardinality({ i \in DOMAIN call.words :
                               Upper(call.words[i]) \notin stop_words })

(***************************************************************************)
(* C8: for two present analyses with top-word sets S1 and S2,              *)
(* calculate_similarity returns the common words S1 \cap S2, their number, *)
(* and the ratio |S1 \cap S2| / |S1 \cup S2| (0 when the union is empty);  *)
(* so the count is at most min(|S1|, |S2|), the ratio lies in [0, 1] and   *)
(* is 0 for disjoint sets, and swapping the arguments changes nothing.     *)
(***************************************************************************)
SimReturned == call.fn = "calculate_similarity" /\ ret.returned

BothPresent == "filepath" \in DOMAIN call.analysis1 /\ "filepath" \in DOMAIN call.analysis2

TopSet(a) == { w \in SimVocab : \E i \in DOMAIN a.top_15_words : a.top_15_words[i] = w }

\* C8: what calculate_similarity returns for two present analyses
C8_Similarity ==
    (SimReturned /\ BothPresent) =>
        LET S1 == TopSet(call.analysis1)
            S2 == TopSet(call.analysis2)
            both == { w \in S1 : w \in S2 }
            either == { w \in SimVocab : w \in S1 \/ w \in S2 }
            r == ret.value
        IN  /\ r.common_words = both
            /\ r.common_count = Cardinality(both)
            /\ IF either = {}
               THEN IsZero(r.jaccard_similarity)
               ELSE r.jaccard_similarity = <<Cardinality(both), Cardinality(either)>>
            /\ r.common_count <= Min(Cardinality(S1), Cardinality(S2))
            /\ r.jaccard_similarity[2] > 0
            /\ 0 <= r.jaccard_similarity[1]
            /\ r.jaccard_similarity[1] <= r.jaccard_similarity[2]
            /\ (both = {}) => IsZero(r.jaccard_similarity)
            /\ r = calculate_similarity(call.analysis2, call.analysis1)

\* two analyses that share one of their words were compared
C8_Witness ==
    /\ SimReturned
    /\ BothPresent
    /\ ret.value.common_count = 1
    /\ ret.value.jaccard_similarity = <<1, 2>>
    /\ Len(call.analysis1.top_15_words) = 1
    /\ Len(call.analysis2.top_15_words) = 2

(***************************************************************************)
(* C9: in an analysis the normalized frequency of a top word is its count  *)
(* over the number of filtered tokens of the document; the counts of the   *)
(* top words sum to at most that number, and to exactly that number when   *)
(* the document has at most N = 15 distinct filtered words.                *)
(***************************************************************************)
AnalyzeReturned == call.fn = "analyze_textbook" /\ ret.returned

AnalyzedOk == AnalyzeReturned /\ fs[call.filepath].kind = "ok"

\* the filtered tokens of the file, counted over the text itself
TokensOf(path) == clean_text(fs[path].text)

TopCounts(a) == [i \in 1..Len(a.top_words) |-> a.top_words[i][2]]

\* the normalized frequencies of a, as numerators over the common denominator
FrequencyIs(a, total) ==
    /\ Len(a.normalized_frequencies) = Len(a.top_words)
    /\ \A i \in DOMAIN a.top_words :
           /\ a.normalized_frequencies[i][1] = a.top_words[i][1]
           /\ a.normalized_frequencies[i][2] =
                  (IF total > 0 THEN <<a.top_words[i][2], total>> ELSE <<0, 1>>)

\* the sum of the normalized frequencies of a is 1
FrequenciesSumToOne(a) ==
    /\ a.total_words > 0
    /\ \A i \in DOMAIN a.normalized_frequencies :
           a.normalized_frequencies[i][2][2] = a.total_words
    /\ SumSeq([i \in 1..Len(a.normalized_frequencies) |->
                  a.normalized_frequencies[i][2][1]]) = a.total_words

\* C9 as stated: the sum is 1 whenever N is at least the number of distinct
\* filtered words
C9_AsStated ==
    AnalyzedOk =>
        LET a == ret.value
            ws == TokensOf(call.filepath)
        IN  /\ a.total_words = Cardinality(NonStop(ws))
            /\ FrequencyIs(a, Cardinality(NonStop(ws)))
            /\ Len(a.top_words) <= DefaultTopN
            /\ SumSeq(TopCounts(a)) <= a.total_words
            /\ (Cardinality(DistinctWords(ws)) <= DefaultTopN) =>
                   FrequenciesSumToOne(a)

\* C9 as amended: the sum is 1 whenever N is at least the number of distinct
\* filtered words and a token survived the filter; with no such token there is
\* no top word and the sum is 0
C9_NormalizedFrequencies ==
    AnalyzedOk =>
        LET a == ret.value
            ws == TokensOf(call.filepath)
        IN  /\ a.total_words = Cardinality(NonStop(ws))
            /\ FrequencyIs(a, Cardinality(NonStop(ws)))
            /\ Len(a.top_words) <= DefaultTopN
            /\ SumSeq(TopCounts(a)) <= a.total_words
            /\ (Cardinality(DistinctWords(ws)) <= DefaultTopN /\ a.total_words > 0) =>
                   FrequenciesSumToOne(a)
            /\ (Cardinality(DistinctWords(ws)) > DefaultTopN) =>
                   SumSeq(TopCounts(a)) < a.total_words
            /\ (a.total_words = 0) => a.normalized_frequencies = <<>>

\* a document of 16 distinct words was analyzed: its 15 top words do not
\* account for all its tokens
C9_Witness ==
    /\ AnalyzedOk
    /\ Len(ret.value.top_words) = DefaultTopN
    /\ ret.value.total_words = 17
    /\ SumSeq(TopCounts(ret.value)) = 16
    /\ ret.value.normalized_frequencies[1] = << <<"B">>, <<2, 17>> >>

(***************************************************************************)
(* Helpers of the properties of a run.                                     *)
(***************************************************************************)
PhaseOrder == <<"COLLECTING", "PAIRING", "RANKING", "REPORTING">>

IsPrefix(s, t) == Len(s) <= Len(t) /\ \A i \in DOMAIN s : s[i] = t[i]

Printed(what) == { i \in DOMAIN out : out[i].ev = what }

NeedAtLeast2 == Ev("need_at_least_2", <<>>, <<>>)

AllAttempted == idx = Len(files) + 1 /\ step = "next"

\* the report of the similarities was not printed, in no part
NoSimilarityReport ==
    Printed("results_header") \cup Printed("pair") \cup Printed("most_similar") = {}

ReadableAt(k) == fs[files[k]].kind = "ok"

\* the iterations of the collecting loop that are over
Attempted == { k \in DOMAIN files : k < idx }

(***************************************************************************)
(* C1: a run goes through COLLECTING, PAIRING, RANKING, REPORTING in this  *)
(* order; no similarity is computed before every source was attempted, and *)
(* a source is attempted only when the one before it is dealt with; with   *)
(* fewer than two analyses the run ends after COLLECTING with the 'need at *)
(* least 2' message, no pair and no similarity report; every run ends: a   *)
(* natural number decreases with every step, and only a run that is DONE   *)
(* has no next step.                                                       *)
(***************************************************************************)
PhasesLeft ==
    CASE pc = "START" -> 5
      [] pc = "COLLECTING" -> 4
      [] pc = "PAIRING" -> 3
      [] pc = "RANKING" -> 2
      [] pc = "REPORTING" -> 1
      [] pc = "DONE" -> 0

\* the steps of the two loops that are left, at most
LoopStepsLeft ==
    2 * (Len(files) + 1 - idx) - (IF step = "analyzed" THEN 1 ELSE 0)
    + (Len(files) * (Len(files) - 1)) \div 2 - Len(similarities)

Measure == PhasesLeft * (Len(files) * Len(files) + 2 * Len(files) + 1) + LoopStepsLeft

\* a step is left; the analysis of the next source is a total function of
\* the file system, so that step is left whenever the loop has a next source
CanStep ==
    \/ MoreSources
    \/ ENABLED (Start \/ Collect \/ EndCollecting \/ PairStep \/ EndPairing
                  \/ Rank \/ Report)

C1_State ==
    /\ IsPrefix(phases, PhaseOrder)
    /\ pc \in {"PAIRING", "RANKING", "REPORTING"} =>
           /\ AllAttempted
           /\ phases # <<>> /\ phases[Len(phases)] = pc
           /\ Len(analyses) >= 2
    /\ similarities # <<>> => AllAttempted
    /\ Len(analyses) < 2 =>
           /\ pc \in {"START", "COLLECTING", "DONE"}
           /\ similarities = <<>>
           /\ NoSimilarityReport
    /\ pc = "DONE" =>
           /\ AllAttempted
           /\ IF Len(analyses) < 2
              THEN /\ phases = <<"COLLECTING">>
                   /\ out[Len(out)] = NeedAtLeast2
                   /\ Cardinality(Printed("need_at_least_2")) = 1
              ELSE /\ phases = PhaseOrder
                   /\ Printed("need_at_least_2") = {}
                   /\ Cardinality(Printed("results_header")) = 1

C1_Step ==
    /\ pc' # pc =>
           <<pc, pc'>> \in { <<"START", "COLLECTING">>, <<"COLLECTING", "PAIRING">>,
                             <<"COLLECTING", "DONE">>, <<"PAIRING", "RANKING">>,
                             <<"RANKING", "REPORTING">>, <<"REPORTING", "DONE">> }
    /\ (pc = "COLLECTING" /\ pc' # pc) =>
           /\ AllAttempted
           /\ (pc' = "DONE") <=> (Len(analyses) < 2)
    /\ idx' # idx => (idx' = idx + 1 /\ step = "analyzed" /\ step' = "next")
    /\ (step = "next" /\ step' = "analyzed") => (idx' = idx /\ idx <= Len(files))
    /\ similarities' # similarities => (pc \in {"PAIRING", "RANKING"} /\ AllAttempted)

\* C1: the phases follow one another in order, a run of fewer than two
\* analyses ends after COLLECTING without pair or report, and every run ends
C1_PhaseOrder ==
    /\ []C1_State
    /\ [][C1_Step]_vars
    /\ [](LoopStepsLeft >= 0)
    /\ [][Measure' < Measure]_vars
    /\ [](pc = "DONE" \/ CanStep)

\* a run of two sources or more ended after COLLECTING
C1_Witness ==
    /\ pc = "DONE"
    /\ Len(files) >= 2
    /\ Len(analyses) < 2
    /\ phases = <<"COLLECTING">>

(***************************************************************************)
(* C2: a source that cannot be read gives no analysis, is reported and     *)
(* does not end the run: the sources after it are analyzed, the analyses   *)
(* after COLLECTING are those of the sources read, and the failed source   *)
(* appears in no pair of the similarity list.                              *)
(***************************************************************************)
\* the part of C2 on the collecting loop
C2_Collected ==
    /\ \A k \in Attempted :
           ~ReadableAt(k) =>
               /\ files[k] \notin Range(Keys(analyses))
               /\ \E i \in Printed("not_found") \cup Printed("error_processing") :
                      out[i].file1 = files[k]
    /\ (pc = "COLLECTING" /\ step = "analyzed" /\ ~ReadableAt(idx)) => cur = None
    /\ pc \notin {"START", "COLLECTING"} =>
           /\ AllAttempted
           /\ Range(Keys(analyses)) = { files[k] : k \in { m \in DOMAIN files : ReadableAt(m) } }
           /\ Cardinality(Printed("textbook")) =
                  Cardinality({ m \in DOMAIN files : ReadableAt(m) })

PairAdded == pc = "PAIRING" /\ Len(similarities') = Len(similarities) + 1

LastPair == similarities'[Len(similarities')]

WordSet(a) == Range(a.top_15_words)

\* C3 as stated: the ratio is 1 for every two documents of identical text
C3_AsStated ==
    [][(PairAdded /\ fs[analyses[pi][1]].text = fs[analyses[pj][1]].text) =>
           /\ LastPair.similarity.common_count = Cardinality(WordSet(analyses[pi][2]))
           /\ IsOne(LastPair.similarity.jaccard_similarity)]_vars

\* C3 as amended: the ratio is 1 when the top-word set is not empty, and 0
\* when it is
C3_IdenticalDocuments ==
    /\ [][(PairAdded /\ fs[analyses[pi][1]].text = fs[analyses[pj][1]].text) =>
              /\ LastPair.similarity.common_count = Cardinality(WordSet(analyses[pi][2]))
              /\ LastPair.similarity.common_words = WordSet(analyses[pi][2])
              /\ IF WordSet(analyses[pi][2]) # {}
                 THEN IsOne(LastPair.similarity.jaccard_similarity)
                 ELSE IsZero(LastPair.similarity.jaccard_similarity)]_vars
    /\ [](\A a, b \in DOMAIN analyses :
              WordSet(analyses[a][2]) = WordSet(analyses[b][2]) =>
                  LET r == calculate_similarity(analyses[a][2], analyses[b][2])
                  IN  /\ r.common_count = Cardinality(WordSet(analyses[a][2]))
                      /\ IF WordSet(analyses[a][2]) # {}
                         THEN IsOne(r.jaccard_similarity)
                         ELSE IsZero(r.jaccard_similarity))

\* two files of the same text, with top words, were paired
C3_Witness ==
    /\ pc = "DONE"
    /\ Len(analyses) = 2
    /\ fs[analyses[1][1]].text = fs[analyses[2][1]].text
    /\ Len(similarities) = 1
    /\ similarities[1].similarity.common_count = 2
    /\ IsOne(similarities[1].similarity.jaccard_similarity)

(***************************************************************************)
(* C4: the sort of find_similar_pairs leaves the pairs by non-increasing   *)
(* common_count, pairs of equal count in the order of their generation,    *)
(* and the list a permutation of the pairs generated.                      *)
(***************************************************************************)
IndexPermutations(n) == { f \in [1..n -> 1..n] : \A i, j \in 1..n : f[i] = f[j] => i = j }

CountOf(e) == e.similarity.common_count

IsStableRanking(ranked, generated) ==
    /\ Len(ranked) = Len(generated)
    /\ \E f \in IndexPermutations(Len(generated)) :
           /\ \A i \in DOMAIN ranked : ranked[i] = generated[f[i]]
           /\ \A i, j \in DOMAIN ranked :
                  i < j => /\ CountOf(ranked[i]) >= CountOf(ranked[j])
                           /\ CountOf(ranked[i]) = CountOf(ranked[j]) => f[i] < f[j]

\* C4: the sort is a stable sort of the generated pairs by non-increasing
\* common_count, and the list stays so ordered
C4_Ranking ==
    /\ [][pc = "RANKING" => IsStableRanking(similarities', similarities)]_vars
    /\ [](pc \in {"REPORTING", "DONE"} =>
              \A i, j \in DOMAIN similarities :
                  i < j => CountOf(similarities[i]) >= CountOf(similarities[j]))

\* three pairs were ranked, the first of them moved behind two pairs of a
\* higher and equal count, which differ
C4_Witness ==
    /\ pc = "REPORTING"
    /\ Len(similarities) = 3
    /\ CountOf(similarities[1]) = 1
    /\ CountOf(similarities[2]) = 1
    /\ CountOf(similarities[3]) = 0
    /\ similarities[1] # similarities[2]
    /\ similarities[3].file1 = basename(analyses[1][1])
    /\ similarities[3].file2 = basename(analyses[2][1])

(***************************************************************************)
(* C5: with k >= 2 analyses the similarity list holds one entry for each   *)
(* unordered pair of distinct documents: k * (k - 1) / 2 entries, no       *)
(* document paired with itself, no unordered pair twice, file1 before      *)
(* file2 in the order of collection.                                       *)
(***************************************************************************)
PairsComplete == pc \in {"RANKING", "REPORTING"} \/ (pc = "DONE" /\ Len(analyses) >= 2)

\* the places in the collection of the documents an entry may name
PlacesOf(name) == { a \in DOMAIN analyses : basename(analyses[a][1]) = name }

ReadSoFar == { k \in Attempted : ReadableAt(k) }

FirstRead(path) ==
    CHOOSE k \in ReadSoFar :
        files[k] = path /\ \A m \in ReadSoFar : files[m] = path => k <= m

\* C10: the collection is keyed by path
C10_KeyedByPath ==
    /\ \A a, b \in DOMAIN analyses : analyses[a][1] = analyses[b][1] => a = b
    /\ Range(Keys(analyses)) = { files[k] : k \in ReadSoFar }
    /\ Len(analyses) = Cardinality({ files[k] : k \in ReadSoFar })
    /\ \A a, b \in DOMAIN analyses :
           a < b => FirstRead(analyses[a][1]) < FirstRead(analyses[b][1])
    /\ \A a \in DOMAIN analyses : analyses[a][2].filepath = analyses[a][1]
    /\ Cardinality(Printed("textbook")) = Cardinality(ReadSoFar)
    /\ pc \in {"PAIRING", "RANKING", "REPORTING"} =>
           Len(analyses) = Cardinality({ files[k] : k \in { m \in DOMAIN files : ReadableAt(m) } })
    /\ (pc = "DONE"
        /\ Cardinality({ files[k] : k \in { m \in DOMAIN files : ReadableAt(m) } }) < 2) =>
           /\ phases = <<"COLLECTING">>
           /\ out[Len(out)] = NeedAtLeast2
           /\ similarities = <<>>

\* a path was read three times and the run ended after COLLECTING
C10_Witness ==
    /\ pc = "DONE"
    /\ Len(files) = 3
    /\ files[1] = files[2] /\ files[2] = files[3]
    /\ ReadableAt(1)
    /\ Len(analyses) = 1
    /\ Cardinality(Printed("textbook")) = 3
    /\ out[Len(out)] = NeedAtLeast2

====
